---- MODULE Spec2Model ----
(***************************************************************************)
(* PoolCache (src/lib.rs): a hybrid LFU cache and object pool.             *)
(*                                                                         *)
(* The state is the PoolCache struct plus the caller's side of the         *)
(* interface: which operation was called last, what it returned, and the   *)
(* values the caller currently owns.  Every public method is one action.   *)
(* Values are modelled by identity: Rust moves them, so every value handed *)
(* to put or insert is an object the cache does not hold.  Each call hands *)
(* in a new object; objects are numbered in the order they are created.    *)
(***************************************************************************)
EXTENDS Integers, Sequences, FiniteSets, TLC

\* ------------------------------------------------------------------ bounds
MaxKeys == 3        \* keys are 1..MaxKeys
MaxVals == 3        \* at most MaxVals value objects are created: 1..MaxVals
MaxHeat == 2        \* new(max_heat) is called with max_heat in 0..MaxHeat

\* The u64 heat counter at reduced width: arithmetic is modulo HeatModulus
\* (2^64 in the program), the smallest modulus for which max_heat + 1 is in
\* range for every max_heat.
HeatModulus == MaxHeat + 2

Keys == 1..MaxKeys

\* Option<Value>: None is the empty sequence, Some(v) a one-element sequence.
None == << >>
Some(v) == << v >>

VARIABLES
    cache,            \* BTreeMap<Key, CacheEntry>: function on the cached keys
    freelist,         \* VecDeque<Value>
    clock,            \* VecDeque<Key>
    max_heat,         \* u64
    profile,          \* the build's overflow-checks setting, as far as the run
                      \* has shown it: "unobserved", "checked" (overflow
                      \* panics) or "wrapping" (overflow wraps)
    status,           \* "ok", or "panicked" once an operation has panicked
    call,             \* the last public operation called: [name, key, val]
    ret,              \* what it returned
    decs,             \* number of CacheEntry::dec calls made by the last call
    underflow,        \* the last call evaluated heat - 1 at heat = 0
    next_val,         \* the next fresh value object
    held,             \* the value objects take has returned to the caller
    reads             \* scripted runs only: the number of get calls the caller
                      \* has made on the key it inserted first

vars == << cache, freelist, clock, max_heat, profile, status, call,
           ret, decs, underflow, next_val, held, reads >>

\* ------------------------------------------------------------- BTreeMap
EmptyMap == [x \in {} |-> 0]
MapRemove(m, k) == [x \in (DOMAIN m) \ {k} |-> m[x]]
MapInsert(m, k, e) == [x \in (DOMAIN m) \cup {k} |-> IF x = k THEN e ELSE m[x]]

\* ----------------------------------------------------------- CacheEntry
\* CacheEntry::new
CacheEntry_new_heat0(val) == [val |-> val, heat |-> 0]
CacheEntry_new(val) == [val |-> val, heat |-> 1]

\* u64 addition and subtraction: [overflow, panic, value].  With overflow
\* checks (oc) the operation panics when the result leaves the range;
\* without, it wraps.
U64Add(a, b, oc) ==
    IF a + b >= HeatModulus
    THEN [overflow |-> TRUE, panic |-> oc, value |-> (a + b) % HeatModulus]
    ELSE [overflow |-> FALSE, panic |-> FALSE, value |-> a + b]
U64Sub(a, b, oc) ==
    IF a - b < 0
    THEN [overflow |-> TRUE, panic |-> oc, value |-> (a - b) % HeatModulus]
    ELSE [overflow |-> FALSE, panic |-> FALSE, value |-> a - b]

Min(a, b) == IF a <= b THEN a ELSE b
Max(a, b) == IF a >= b THEN a ELSE b

\* CacheEntry::inc: heat = min(heat + 1, max_heat).  [overflow, panic, heat]
inc_unsaturated(heat, mh, oc) ==
    LET s == U64Add(heat, 1, oc) IN
    [overflow |-> s.overflow, panic |-> s.panic, heat |-> s.value]
inc_offbyone(heat, mh, oc) ==
    LET s == U64Add(heat, 1, oc) IN
    [overflow |-> s.overflow, panic |-> s.panic, heat |-> Min(s.value, mh + 1)]
inc(heat, mh, oc) ==
    LET s == U64Add(heat, 1, oc) IN
    [overflow |-> s.overflow, panic |-> s.panic, heat |-> Min(s.value, mh)]

\* CacheEntry::dec: heat = max(heat - 1, 0), the subtraction in u64.
\* [overflow, panic, heat]
dec_by2(heat, oc) ==
    LET d == U64Sub(heat, Min(heat, 2), oc) IN
    [overflow |-> d.overflow, panic |-> d.panic, heat |-> Max(d.value, 0)]
dec(heat, oc) ==
    LET d == U64Sub(heat, 1, oc) IN
    [overflow |-> d.overflow, panic |-> d.panic, heat |-> Max(d.value, 0)]

\* ------------------------------------------------------------- PoolCache
\* PoolCache::new
Init ==
    /\ cache = EmptyMap
    /\ freelist = << >>
    /\ clock = << >>
    /\ max_heat \in 0..MaxHeat
    /\ profile = "unobserved"
    /\ status = "ok"
    /\ call = [name |-> "new", key |-> 0, val |-> 0]
    /\ ret = None
    /\ decs = 0
    /\ underflow = FALSE
    /\ next_val = 1
    /\ held = {}
    /\ reads = 0

\* The value object the caller can hand in: the next new one.
Inputs == IF next_val <= MaxVals THEN {next_val} ELSE {}

\* The caller moves the new object val into the cache.
Give(val) ==
    /\ next_val' = val + 1
    /\ UNCHANGED held

\* The overflow-checks settings the run so far allows.
Builds ==
    IF profile = "unobserved" THEN BOOLEAN ELSE {profile = "checked"}

\* The profile after an operation run with overflow checks oc.
Observe(overflow, oc) ==
    IF overflow THEN (IF oc THEN "checked" ELSE "wrapping") ELSE profile

\* (a contains_key written as self.get(key).is_some(), which bumps the heat)
contains_key_viaget(key) ==
    /\ status = "ok"
    /\ call' = [name |-> "contains_key", key |-> key, val |-> 0]
    /\ ret' = (key \in DOMAIN cache)
    /\ decs' = 0
    /\ underflow' = FALSE
    /\ cache' = IF key \in DOMAIN cache
                THEN [cache EXCEPT ![key].heat = Min(cache[key].heat + 1, max_heat)]
                ELSE cache
    /\ UNCHANGED << freelist, clock, max_heat, profile, status, next_val, held >>

\* PoolCache::contains_key
contains_key(key) ==
    /\ status = "ok"
    /\ call' = [name |-> "contains_key", key |-> key, val |-> 0]
    /\ ret' = (key \in DOMAIN cache)
    /\ decs' = 0
    /\ underflow' = FALSE
    /\ UNCHANGED << cache, freelist, clock, max_heat, profile, status,
                    next_val, held >>

\* PoolCache::get
get(key) ==
    /\ status = "ok"
    /\ call' = [name |-> "get", key |-> key, val |-> 0]
    /\ decs' = 0
    /\ underflow' = FALSE
    /\ IF key \in DOMAIN cache
       THEN \E oc \in Builds :
            LET i == inc(cache[key].heat, max_heat, oc) IN
            /\ profile' = Observe(i.overflow, oc)
            /\ IF i.panic
               THEN /\ status' = "panicked"
                    /\ ret' = None
                    /\ UNCHANGED cache
               ELSE /\ cache' = [cache EXCEPT ![key].heat = i.heat]
                    /\ ret' = Some(cache[key].val)
                    /\ UNCHANGED status
       ELSE /\ ret' = None
            /\ UNCHANGED << cache, status, profile >>
    /\ UNCHANGED << freelist, clock, max_heat, next_val, held >>

\* (a put that pushes to the front of the freelist)
put_front(val) ==
    /\ status = "ok"
    /\ freelist' = << val >> \o freelist
    /\ Give(val)
    /\ call' = [name |-> "put", key |-> 0, val |-> val]
    /\ ret' = None
    /\ decs' = 0
    /\ underflow' = FALSE
    /\ UNCHANGED << cache, clock, max_heat, profile, status >>

\* PoolCache::put
put(val) ==
    /\ status = "ok"
    /\ freelist' = Append(freelist, val)
    /\ Give(val)
    /\ call' = [name |-> "put", key |-> 0, val |-> val]
    /\ ret' = None
    /\ decs' = 0
    /\ underflow' = FALSE
    /\ UNCHANGED << cache, clock, max_heat, profile, status >>

\* insert, lines 107-110: the old entry's value goes to the back of the freelist
Displace_drop(fl, c, key) == fl
Displace(fl, c, key) ==
    IF key \in DOMAIN c THEN Append(fl, c[key].val) ELSE fl

\* insert, lines 111-113: a key that had no entry goes to the back of the clock
PushKey_always(clk, key, found_entry) == Append(clk, key)
PushKey(clk, key, found_entry) ==
    IF ~found_entry THEN Append(clk, key) ELSE clk

\* PoolCache::insert
insert(key, val) ==
    /\ status = "ok"
    /\ LET found_entry == key \in DOMAIN cache IN
       /\ freelist' = Displace(freelist, cache, key)
       /\ clock' = PushKey(clock, key, found_entry)
       /\ cache' = MapInsert(MapRemove(cache, key), key, CacheEntry_new(val))
    /\ Give(val)
    /\ call' = [name |-> "insert", key |-> key, val |-> val]
    /\ ret' = None
    /\ decs' = 0
    /\ underflow' = FALSE
    /\ UNCHANGED << max_heat, profile, status >>

\* take, lines 121-123: the front of the freelist
PopFree_back(fl) ==
    [val |-> fl[Len(fl)], rest |-> SubSeq(fl, 1, Len(fl) - 1)]
PopFree_peek(fl) == [val |-> Head(fl), rest |-> fl]
PopFree(fl) == [val |-> Head(fl), rest |-> Tail(fl)]

\* take, lines 130-139: the loop over the clock.  n counts the dec calls made
\* so far and uf records whether one of them was made at heat 0.  When dec
\* panics the key has been popped and the entry is still in the map.
Sweep_nochance(c, clk, n, uf, oc) ==
    LET key == Head(clk)
        d == dec(c[key].heat, oc)
    IN  [panic |-> d.panic, cache |-> IF d.panic THEN c ELSE MapRemove(c, key),
         clock |-> Tail(clk),
         ret |-> IF d.panic THEN None ELSE Some(c[key].val),
         decs |-> n + 1, underflow |-> uf \/ d.overflow]
RECURSIVE Sweep_keepentry(_, _, _, _, _)
Sweep_keepentry(c, clk, n, uf, oc) ==
    LET key == Head(clk)
        rest == Tail(clk)
        d == dec(c[key].heat, oc)
        uf2 == uf \/ d.overflow
    IN  IF d.panic
        THEN [panic |-> TRUE, cache |-> c, clock |-> rest, ret |-> None,
              decs |-> n + 1, underflow |-> uf2]
        ELSE IF d.heat = 0
        THEN [panic |-> FALSE, cache |-> c, clock |-> rest,
              ret |-> Some(c[key].val), decs |-> n + 1, underflow |-> uf2]
        ELSE Sweep_keepentry([c EXCEPT ![key].heat = d.heat], Append(rest, key),
                             n + 1, uf2, oc)
RECURSIVE Sweep_pushfirst(_, _, _, _, _)
Sweep_pushfirst(c, clk, n, uf, oc) ==
    LET key == Head(clk)
        rest == Append(Tail(clk), key)
        d == dec(c[key].heat, oc)
        uf2 == uf \/ d.overflow
    IN  IF d.panic
        THEN [panic |-> TRUE, cache |-> c, clock |-> rest, ret |-> None,
              decs |-> n + 1, underflow |-> uf2]
        ELSE IF d.heat = 0
        THEN [panic |-> FALSE, cache |-> MapRemove(c, key), clock |-> rest,
              ret |-> Some(c[key].val), decs |-> n + 1, underflow |-> uf2]
        ELSE Sweep_pushfirst([c EXCEPT ![key].heat = d.heat], rest,
                             n + 1, uf2, oc)
RECURSIVE Sweep(_, _, _, _, _)
Sweep(c, clk, n, uf, oc) ==
    LET key == Head(clk)
        rest == Tail(clk)
        d == dec(c[key].heat, oc)
        uf2 == uf \/ d.overflow
    IN  IF d.panic
        THEN [panic |-> TRUE, cache |-> c, clock |-> rest, ret |-> None,
              decs |-> n + 1, underflow |-> uf2]
        ELSE IF d.heat = 0
        THEN [panic |-> FALSE, cache |-> MapRemove(c, key), clock |-> rest,
              ret |-> Some(c[key].val), decs |-> n + 1, underflow |-> uf2]
        ELSE Sweep([c EXCEPT ![key].heat = d.heat], Append(rest, key),
                   n + 1, uf2, oc)

\* (a take that sweeps the clock before it looks at the freelist)
take_evictfirst ==
    /\ status = "ok"
    /\ call' = [name |-> "take", key |-> 0, val |-> 0]
    /\ IF clock # << >>
       THEN \E oc \in Builds :
            LET s == Sweep(cache, clock, 0, FALSE, oc) IN
            /\ cache' = s.cache
            /\ clock' = s.clock
            /\ ret' = s.ret
            /\ decs' = s.decs
            /\ underflow' = s.underflow
            /\ status' = IF s.panic THEN "panicked" ELSE "ok"
            /\ profile' = Observe(s.underflow, oc)
            /\ held' = held \cup {s.ret[i] : i \in DOMAIN s.ret}
            /\ UNCHANGED freelist
       ELSE IF freelist # << >>
       THEN /\ freelist' = Tail(freelist)
            /\ ret' = Some(Head(freelist))
            /\ held' = held \cup {Head(freelist)}
            /\ decs' = 0
            /\ underflow' = FALSE
            /\ UNCHANGED << cache, clock, status, profile >>
       ELSE /\ ret' = None
            /\ decs' = 0
            /\ underflow' = FALSE
            /\ UNCHANGED << cache, freelist, clock, status, profile, held >>
    /\ UNCHANGED << max_heat, next_val >>

\* PoolCache::take
take ==
    /\ status = "ok"
    /\ call' = [name |-> "take", key |-> 0, val |-> 0]
    /\ IF freelist # << >>
       THEN LET f == PopFree(freelist) IN
            /\ freelist' = f.rest
            /\ ret' = Some(f.val)
            /\ held' = held \cup {f.val}
            /\ decs' = 0
            /\ underflow' = FALSE
            /\ UNCHANGED << cache, clock, status, profile >>
       ELSE IF clock = << >>
       THEN /\ ret' = None
            /\ decs' = 0
            /\ underflow' = FALSE
            /\ UNCHANGED << cache, freelist, clock, status, profile, held >>
       ELSE \E oc \in Builds :
            LET s == Sweep(cache, clock, 0, FALSE, oc) IN
            /\ cache' = s.cache
            /\ clock' = s.clock
            /\ ret' = s.ret
            /\ decs' = s.decs
            /\ underflow' = s.underflow
            /\ status' = IF s.panic THEN "panicked" ELSE "ok"
            /\ profile' = Observe(s.underflow, oc)
            /\ held' = held \cup {s.ret[i] : i \in DOMAIN s.ret}
            /\ UNCHANGED freelist
    /\ UNCHANGED << max_heat, next_val >>

Next ==
    \/ \E key \in Keys : contains_key(key) /\ UNCHANGED reads
    \/ \E key \in Keys : get(key) /\ UNCHANGED reads
    \/ \E val \in Inputs : put(val) /\ UNCHANGED reads
    \/ \E key \in Keys, val \in Inputs : insert(key, val) /\ UNCHANGED reads
    \/ take /\ UNCHANGED reads

Spec == Init /\ [][Next]_vars

\* ------------------------------------------------------------ properties
\* A step that is a call of the public operation `name` on a live cache.
Calls(name) == status = "ok" /\ call'.name = name

ClockKeys == {clock[i] : i \in DOMAIN clock}

\* Every entry other than key's is the same before and after the step.
OthersUnchanged(key) ==
    \A k \in (DOMAIN cache) \ {key} : k \in DOMAIN cache' /\ cache'[k] = cache[k]

\* C1: after every public operation the clock holds exactly the keys that
\* have an entry in the map, each exactly once.
C1_ClockMatchesEntries ==
    status = "ok" =>
        /\ ClockKeys = DOMAIN cache
        /\ Len(clock) = Cardinality(DOMAIN cache)

\* C1 witness: a sweep has rotated the clock and evicted a key, two remain.
C1_Witness ==
    /\ status = "ok"
    /\ call.name = "take"
    /\ decs >= 2
    /\ Len(clock) = 2

\* C2: when the freelist is not empty, take returns its front value, removes
\* only that value, and leaves the map and the clock as they were.
C2_FreelistPriority ==
    [][ (Calls("take") /\ freelist # << >>) =>
            /\ ret' = Some(Head(freelist))
            /\ freelist' = Tail(freelist)
            /\ cache' = cache
            /\ clock' = clock
            /\ status' = "ok" ]_vars

\* C2 witness: take has served a value from a freelist of two while a key
\* was cached.
C2_Witness ==
    /\ call.name = "take"
    /\ ret # None
    /\ decs = 0
    /\ Len(freelist) = 1
    /\ clock # << >>

\* The least heat among the cached keys, and the first key of the clock
\* that has it.
MinHeat == CHOOSE m \in 0..HeatModulus :
    /\ \E k \in DOMAIN cache : cache[k].heat = m
    /\ \A k \in DOMAIN cache : cache[k].heat >= m
Coldest ==
    clock[CHOOSE i \in DOMAIN clock :
            /\ cache[clock[i]].heat = MinHeat
            /\ \A j \in 1..(i - 1) : cache[clock[j]].heat # MinHeat]

\* C3: with max_heat >= 1, an empty freelist and a cached key, take evicts
\* the key of least heat, the one nearest the clock's front among ties,
\* returns its value and removes it from the map.
C3_LeastHotEviction ==
    [][ (Calls("take") /\ max_heat >= 1 /\ freelist = << >> /\ clock # << >>) =>
            /\ status' = "ok"
            /\ ret' = Some(cache[Coldest].val)
            /\ DOMAIN cache' = (DOMAIN cache) \ {Coldest} ]_vars

\* C3 witness: of three keys the second in the clock was evicted on the
\* first pass (two decrements); the key behind it kept heat 1, so it tied
\* with the victim, and the key ahead of it was hotter.
C3_Witness ==
    /\ status = "ok"
    /\ max_heat >= 1
    /\ call.name = "take"
    /\ decs = 2
    /\ Len(clock) = 2
    /\ cache[clock[1]].heat = 1

\* C4: take returns None exactly when the freelist and the map are empty,
\* and then changes nothing; in every other state it returns Some value.
C4_TakeNoneIffEmpty ==
    [][ Calls("take") =>
            /\ status' = "ok"
            /\ (ret' = None) <=> (freelist = << >> /\ DOMAIN cache = {})
            /\ (ret' = None) =>
                   (cache' = cache /\ freelist' = freelist /\ clock' = clock) ]_vars

\* C5: get(k) returns the value of k's entry and sets its heat to
\* min(heat + 1, max_heat), or returns None when k has no entry; the key
\* set, the values, the clock, the freelist and the other heats are unchanged.
C5_GetBumpsHeatOnly ==
    [][ Calls("get") =>
            LET k == call'.key IN
            /\ status' = "ok"
            /\ k \in DOMAIN cache =>
                   /\ ret' = Some(cache[k].val)
                   /\ cache'[k].val = cache[k].val
                   /\ cache'[k].heat = Min(cache[k].heat + 1, max_heat)
            /\ k \notin DOMAIN cache => ret' = None
            /\ DOMAIN cache' = DOMAIN cache
            /\ OthersUnchanged(k)
            /\ clock' = clock
            /\ freelist' = freelist ]_vars

\* C5 witness: a get has hit a key whose heat was already at a ceiling of at
\* least 2, with another key cached and a value in the freelist.
C5_Witness ==
    /\ call.name = "get"
    /\ ret # None
    /\ max_heat >= 2
    /\ cache[call.key].heat = max_heat
    /\ Len(clock) = 2
    /\ freelist # << >>

\* C6: insert(k, v) on a key that has an entry appends the old value to the
\* back of the freelist, leaves k holding v at heat 1, and leaves the clock
\* and every other entry unchanged.
C6_InsertReplaces ==
    [][ (Calls("insert") /\ call'.key \in DOMAIN cache) =>
            LET k == call'.key IN
            /\ status' = "ok"
            /\ freelist' = Append(freelist, cache[k].val)
            /\ DOMAIN cache' = DOMAIN cache
            /\ cache'[k] = [val |-> call'.val, heat |-> 1]
            /\ clock' = clock
            /\ OthersUnchanged(k) ]_vars

\* C6 witness: the last call inserted the key at the clock's front, ahead
\* of another key, so the key had an entry, and its old value is in the
\* freelist.
C6_Witness ==
    /\ call.name = "insert"
    /\ Len(clock) = 2
    /\ clock[1] = call.key
    /\ freelist # << >>
    /\ max_heat >= 2

\* C7: insert(k, v) on a key with no entry appends k to the clock, creates
\* the entry (v, heat 1), and leaves the freelist and every other entry
\* unchanged; nothing is evicted.
C7_InsertNew ==
    [][ (Calls("insert") /\ call'.key \notin DOMAIN cache) =>
            LET k == call'.key IN
            /\ status' = "ok"
            /\ clock' = Append(clock, k)
            /\ DOMAIN cache' = (DOMAIN cache) \cup {k}
            /\ cache'[k] = [val |-> call'.val, heat |-> 1]
            /\ freelist' = freelist
            /\ OthersUnchanged(k) ]_vars

\* C7 witness: the last call inserted the key now at the back of a clock of
\* two, with a value waiting in the freelist.
C7_Witness ==
    /\ call.name = "insert"
    /\ Len(clock) = 2
    /\ clock[2] = call.key
    /\ freelist # << >>

\* C8: with max_heat >= 1 every entry's heat is within 0..max_heat after
\* every operation, and the entry insert has just created has heat 1.
C8_HeatBounds ==
    max_heat >= 1 =>
        /\ \A k \in DOMAIN cache : cache[k].heat \in 0..max_heat
        /\ call.name = "insert" => cache[call.key].heat = 1

\* C8 witness: a get has hit a key at the ceiling while every cached key is
\* at the ceiling.
C8_Witness ==
    /\ max_heat >= 1
    /\ call.name = "get"
    /\ ret # None
    /\ Len(clock) = 3
    /\ \A k \in DOMAIN cache : cache[k].heat = max_heat

\* C9: for every max_heat, 0 included, no sequence of operations makes the
\* sweep evaluate heat - 1 at heat = 0.
C9_NoUnderflow == ~underflow

\* C10: from an empty freelist and n >= 1 cached keys the sweep returns a
\* value after at most n * max_heat decrements.
C10_SweepBounded ==
    [][ (Calls("take") /\ freelist = << >> /\ clock # << >>) =>
            /\ status' = "ok"
            /\ ret' # None
            /\ decs' <= Len(clock) * max_heat ]_vars


\* The value objects handed to the cache so far.
Given == 1..(next_val - 1)

\* The number of places that hold the value object v: keys, freelist
\* positions, and the caller's hands after a take.
Places(v) ==
    Cardinality({k \in DOMAIN cache : cache[k].val = v})
        + Cardinality({i \in DOMAIN freelist : freelist[i] = v})
        + (IF v \in held THEN 1 ELSE 0)

\* C11: every value given to the cache by put or insert is in exactly one
\* place (under one key, at one freelist position, or returned by take), and
\* take never returns a value it has returned before.
C11_SingleOwnership ==
    [][ /\ \A v \in 1..(next_val' - 1) : Places(v)' = 1
        /\ (Calls("take") /\ ret' # None) => ret'[1] \notin held ]_vars

\* C11 witness: one value is keyed, one is in the freelist and one has been
\* returned by take.
C11_Witness ==
    /\ next_val = 4
    /\ Cardinality(DOMAIN cache) = 1
    /\ Len(freelist) = 1
    /\ Cardinality(held) = 1
    /\ \A v \in Given : Places(v) = 1


\* C12: a value added by put is returned by the very next take, and that
\* take removes no key and decrements no heat.
C12_PutThenTake ==
    [][ (call.name = "put" /\ Calls("take")) =>
            /\ ret' = Some(call.val)
            /\ cache' = cache
            /\ clock' = clock
            /\ decs' = 0 ]_vars

\* C12 as amended: the take that follows a put returns the oldest value of
\* the freelist, which is the value just put when the freelist held nothing
\* else, and that take removes no key and decrements no heat.
C12_PutThenTakeOldest ==
    [][ (call.name = "put" /\ Calls("take")) =>
            /\ ret' = Some(Head(freelist))
            /\ Len(freelist) = 1 => ret' = Some(call.val)
            /\ Len(freelist) > 1 => ret' # Some(call.val)
            /\ freelist' = Tail(freelist)
            /\ cache' = cache
            /\ clock' = clock
            /\ decs' = 0
            /\ status' = "ok" ]_vars

\* C12 witness: with a key cached, take has returned the older of two values
\* that were put and the newer one is still in the freelist.
C12_Witness ==
    /\ call.name = "take"
    /\ decs = 0
    /\ next_val = 4
    /\ ret = Some(2)
    /\ freelist = << 3 >>
    /\ Len(clock) = 1


\* The run of C13: insert(k, v1), insert(k, v2) and then take, with any
\* number of get calls (on k or on a key that has no entry) anywhere in
\* between.  The value objects are v1 = 1 and v2 = 2.
Next13 ==
    \/ \E key \in Keys :
           /\ next_val = 1
           /\ insert(key, 1)
           /\ UNCHANGED reads
    \/ \E key \in DOMAIN cache :
           /\ next_val = 2
           /\ insert(key, 2)
           /\ UNCHANGED reads
    \/ \E key \in Keys : get(key) /\ UNCHANGED reads
    \/ /\ next_val = 3
       /\ take
       /\ UNCHANGED reads

Spec13 == Init /\ [][Next13]_vars

\* C13: after insert(k, v1) and insert(k, v2) on an empty cache, with any
\* number of get(k) calls, the takes return v1, then v2, then None.
C13_DisplacedBeforeKeyed ==
    [][ Calls("take") =>
            /\ status' = "ok"
            /\ ret' = IF 1 \notin held THEN Some(1)
                      ELSE IF 2 \notin held THEN Some(2)
                      ELSE None ]_vars


\* The key that holds the value object 1, the first one inserted.
Target == CHOOSE k \in DOMAIN cache : cache[k].val = 1
TargetCached == \E k \in DOMAIN cache : cache[k].val = 1

\* The position of key k in the clock.
ClockPos(k) == CHOOSE i \in DOMAIN clock : clock[i] = k

\* The run of C14: a key is inserted and then read with get max_heat times
\* (reads counts them); other keys may be inserted (once each) and read at
\* any time; once the key has been read max_heat times it is left alone and
\* take may be called.  put is never called, so every take sweeps.
Next14 ==
    \/ \E key \in Keys :
           /\ next_val = 1
           /\ insert(key, 1)
           /\ UNCHANGED reads
    \/ /\ TargetCached
       /\ held = {}
       /\ reads < max_heat
       /\ get(Target)
       /\ reads' = reads + 1
    \/ \E key \in Keys \ DOMAIN cache, val \in Inputs :
           /\ next_val > 1
           /\ held = {}
           /\ insert(key, val)
           /\ UNCHANGED reads
    \/ \E key \in Keys :
           /\ TargetCached
           /\ key # Target
           /\ get(key)
           /\ UNCHANGED reads
    \/ /\ next_val > 1
       /\ reads = max_heat
       /\ take
       /\ UNCHANGED reads

Spec14 == Init /\ [][Next14]_vars

\* C14: a key inserted and then read max_heat times has heat max_heat, and
\* the take that evicts it decrements its heat max_heat times, once per
\* pass over the clock: as the sweep visits the keys in rotation, that is
\* max_heat - 1 full passes and then the keys up to the evicted one.
C14_MaxHeatPasses ==
    [][ /\ (TargetCached' /\ reads' = max_heat /\ held' = {}) =>
               cache'[Target'].heat = max_heat
        /\ (Calls("take") /\ held = {} /\ TargetCached /\ ~TargetCached') =>
               /\ status' = "ok"
               /\ ret' = Some(1)
               /\ decs' = (max_heat - 1) * Len(clock) + ClockPos(Target) ]_vars


\* C15: put(v) appends v behind every value of the freelist and changes
\* neither the map nor the clock; the freelist is a queue: it changes only
\* by put or insert appending a freed value at its back and by take
\* returning the value at its front.
C15_PutAppends ==
    [][ /\ Calls("put") =>
               /\ status' = "ok"
               /\ freelist' = Append(freelist, call'.val)
               /\ cache' = cache
               /\ clock' = clock
        /\ (status = "ok" /\ freelist' # freelist) =>
               \/ /\ call'.name = "put"
                  /\ freelist' = Append(freelist, call'.val)
               \/ /\ call'.name = "insert"
                  /\ call'.key \in DOMAIN cache
                  /\ freelist' = Append(freelist, cache[call'.key].val)
               \/ /\ call'.name = "take"
                  /\ freelist' = Tail(freelist)
                  /\ ret' = Some(Head(freelist)) ]_vars

\* C15 witness: put has appended a value behind a value that insert had
\* displaced, with the key still cached.
C15_Witness ==
    /\ call.name = "put"
    /\ freelist = << 1, 3 >>
    /\ Len(clock) = 1
    /\ cache[clock[1]].val = 2


\* C16: contains_key(k) is true exactly when k has an entry, which is when
\* get(k) returns a value, and it changes nothing; a key gains its entry
\* only by insert on it and loses it only by the take that returns its value.
C16_ContainsKey ==
    [][ /\ Calls("contains_key") =>
               /\ status' = "ok"
               /\ ret' = (call'.key \in DOMAIN cache)
               /\ cache' = cache
               /\ clock' = clock
               /\ freelist' = freelist
        /\ Calls("get") => ((ret' # None) <=> (call'.key \in DOMAIN cache))
        /\ status = "ok" =>
               \A k \in Keys :
                   /\ (k \notin DOMAIN cache /\ k \in DOMAIN cache') =>
                          (call'.name = "insert" /\ call'.key = k)
                   /\ (k \in DOMAIN cache /\ k \notin DOMAIN cache') =>
                          (call'.name = "take" /\ ret' = Some(cache[k].val)) ]_vars

\* C16 witness: contains_key has answered true for a key whose heat is still
\* 1 under a ceiling of 2, with a second key cached and a value returned by
\* an earlier take.
C16_Witness ==
    /\ call.name = "contains_key"
    /\ ret = TRUE
    /\ max_heat = 2
    /\ cache[call.key].heat = 1
    /\ Len(clock) = 2
    /\ held # {}


\* The step removes a key from the map; the key it removes.
Evicts == \E k \in DOMAIN cache : k \notin DOMAIN cache'
Evicted == CHOOSE k \in DOMAIN cache : k \notin DOMAIN cache'

\* C17: with max_heat >= 1, when take sweeps and evicts a key whose heat was
\* m, every other key stays cached with its value; a key that was ahead of
\* the victim in the clock has its heat lowered by m, a key that was behind
\* it by m - 1; and every cached entry has heat >= 1 after every operation.
C17_SurvivorsAge ==
    [][ /\ (Calls("take") /\ max_heat >= 1 /\ freelist = << >> /\ clock # << >>) =>
               /\ Evicts
               /\ LET m == cache[Evicted].heat IN
                  \A k \in (DOMAIN cache) \ {Evicted} :
                      /\ k \in DOMAIN cache'
                      /\ cache'[k].val = cache[k].val
                      /\ cache'[k].heat =
                             cache[k].heat - (IF ClockPos(k) < ClockPos(Evicted)
                                              THEN m ELSE m - 1)
        /\ max_heat >= 1 => \A k \in DOMAIN cache' : cache'[k].heat >= 1 ]_vars

\* C17 witness: of three keys the second in the clock was evicted at heat 1;
\* the key behind it kept heat 2 and the key ahead of it fell from 2 to 1.
C17_Witness ==
    /\ status = "ok"
    /\ call.name = "take"
    /\ decs = 2
    /\ Len(clock) = 2
    /\ cache[clock[1]].heat = 2
    /\ cache[clock[2]].heat = 1


\* C18: a take that sweeps and evicts a victim leaves the clock rotated at
\* the victim's position, the victim removed: the keys that followed it, in
\* their order, then the keys that preceded it, in their order.  Every
\* other operation leaves the clock as it was or appends a new key to it.
C18_ClockRotation ==
    [][ status = "ok" =>
            IF call'.name = "take" /\ freelist = << >> /\ clock # << >>
            THEN Evicts =>
                     LET p == ClockPos(Evicted) IN
                     clock' = SubSeq(clock, p + 1, Len(clock))
                                  \o SubSeq(clock, 1, p - 1)
            ELSE \/ clock' = clock
                 \/ \E k \in Keys \ ClockKeys : clock' = Append(clock, k) ]_vars

\* C18 witness: of three keys the second in the clock was evicted; the key
\* inserted after it (it holds the newer value) is now first in the clock
\* and the key inserted before it is last.
C18_Witness ==
    /\ status = "ok"
    /\ call.name = "take"
    /\ decs = 2
    /\ Len(clock) = 2
    /\ next_val = 4
    /\ cache[clock[1]].val = 3
    /\ cache[clock[2]].val = 1


\* C19: with max_heat = 0, a take that reaches the sweep evicts the key at
\* the front of the clock on its first decrement and returns its value.
C19_ZeroCeilingEvictsFront ==
    [][ (Calls("take") /\ max_heat = 0 /\ freelist = << >> /\ clock # << >>) =>
            /\ status' = "ok"
            /\ decs' = 1
            /\ ret' = Some(cache[Head(clock)].val)
            /\ cache' = MapRemove(cache, Head(clock))
            /\ clock' = Tail(clock) ]_vars

\* The values the cache holds: in the freelist or under a key.
Pooled == {freelist[i] : i \in DOMAIN freelist}
              \cup {cache[k].val : k \in DOMAIN cache}
Items == Len(freelist) + Cardinality(DOMAIN cache)

\* C20: with max_heat >= 1, every take on a cache that holds N >= 1 items
\* returns one of the held values, the freelist's front while the freelist
\* is not empty, and leaves the other N - 1 held; a take on a cache that
\* holds nothing returns None.  The state a take leaves is again a state of
\* the cache, so N consecutive takes return every held value once, freelist
\* values first and in order, and the next take returns None.
C20_Draining ==
    [][ (Calls("take") /\ max_heat >= 1) =>
            /\ status' = "ok"
            /\ Items = 0 => (ret' = None /\ Items' = 0)
            /\ Items > 0 =>
                   /\ ret' # None
                   /\ ret'[1] \in Pooled
                   /\ Pooled' = Pooled \ {ret'[1]}
                   /\ Items' = Items - 1
                   /\ freelist # << >> =>
                          (ret' = Some(Head(freelist)) /\ freelist' = Tail(freelist))
                   /\ freelist' = IF freelist = << >> THEN << >> ELSE Tail(freelist) ]_vars

\* C20 witness: three values were held, in the freelist and under keys; take
\* has returned all three, the last by a sweep, and the cache is empty.
C20_Witness ==
    /\ max_heat >= 1
    /\ call.name = "take"
    /\ decs >= 1
    /\ held = {1, 2, 3}
    /\ Items = 0

====
